---- MODULE Spec2Model ----
(***************************************************************************)
(* A model of tkp/db/general.py: the bulk insert of extracted sources, the *)
(* removal of user detections, the light-curve query and the catalogue     *)
(* cross-match.                                                            *)
(*                                                                         *)
(* Representation of the numbers.                                          *)
(*   - Angles (ra, decl, assoc_theta, radius) are integers counting half   *)
(*     degrees, so that FLOOR(decl) is a real floor: zone = decl \div 2.   *)
(*   - Positions used in trigonometric expressions lie on declinations     *)
(*     0 and +-60 degrees and (for the catalogues) right ascensions that   *)
(*     are multiples of 60 degrees, where COS^2 and the Cartesian products *)
(*     are rational; they are computed exactly, never rounded.             *)
(*   - Positional uncertainties count tenths of a degree (360 arcsec).     *)
(*     extractedsource.uncertainty_ew is sqrt(..)/3600, irrational in      *)
(*     general; the queries only ever read its square, and the model       *)
(*     stores that square (uncertainty_ew_sq), which is exact.             *)
(*   - SQRT(e) < r is decided as e < r*r for r > 0 and is false for        *)
(*     r <= 0; rationals are pairs <<numerator, denominator>> kept in      *)
(*     lowest terms.  A De Ruiter cutoff counts tenths (37 is 3.7).        *)
(*   - Columns that no query of general.py reads back (ra_err, decl_err,   *)
(*     x, y, z, racosdecl of extractedsource and the flux and beam columns *)
(*     other than f_int, f_int_err) are not carried in the stored row.     *)
(***************************************************************************)
EXTENDS Integers, Sequences, FiniteSets

VARIABLES
    extractedsource,   \* committed rows of table extractedsource
    assocxtrsource,    \* committed rows of table assocxtrsource: <<runcat, xtrsrc>>
    catalogedsource,   \* rows of table catalogedsource
    runningcatalog,    \* rows of table runningcatalog
    pc,                \* where the running insert_extracted_sources call stands
    stmts,             \* INSERT statements the running call still has to execute
    txn,               \* rows written by the open transaction, not yet committed
    call,              \* arguments of the running insert_extracted_sources call
    nextid,            \* next value of the extractedsource id sequence
    ret                \* outcome of the latest call

vars == <<extractedsource, assocxtrsource, catalogedsource, runningcatalog,
          pc, stmts, txn, call, nextid, ret>>

(***************************************************************************)
(* Bounds of the model.                                                    *)
(***************************************************************************)
MaxId == 2
MaxBatch == 2
MaxEdges == 2
MaxCatSources == 2

(***************************************************************************)
(* Exact arithmetic.                                                       *)
(***************************************************************************)
Abs(x) == IF x < 0 THEN -x ELSE x

RECURSIVE Gcd(_, _)
Gcd(a, b) == IF b = 0 THEN a ELSE Gcd(b, a % b)

\* The rational n/d (d > 0) in lowest terms.
Rat(n, d) ==
    LET g == Gcd(Abs(n), d) IN <<n \div g, d \div g>>

RatAdd(p, q) == Rat(p[1] * q[2] + q[1] * p[2], p[2] * q[2])

RatLess(p, q) == p[1] * q[2] < q[1] * p[2]

RatLeq(p, q) == p[1] * q[2] <= q[1] * p[2]

\* 4 * COS(RADIANS(a))^2 for an angle of q quarter degrees.
CosSq4(q) ==
    CASE Abs(q) = 0   -> 4
      [] Abs(q) = 120 -> 3
      [] Abs(q) = 180 -> 2
      [] Abs(q) = 240 -> 1
      [] Abs(q) = 360 -> 0

\* SQL FLOOR of an angle of a half degrees, in whole degrees.
Floor(a) == a \div 2

(***************************************************************************)
(* Tables this module only reads: image and frequencyband.                 *)
(***************************************************************************)
\* image 1 was observed after image 2: ids do not follow observation time.
image ==
    [id \in {1, 2} |->
        IF id = 1
        THEN [taustart_ts |-> 20, tau_time |-> 10, band |-> 1, stokes |-> 1]
        ELSE [taustart_ts |-> 10, tau_time |-> 10, band |-> 2, stokes |-> 1]]

frequencyband ==
    [id \in {1, 2} |-> [freq_central |-> IF id = 1 THEN 150 ELSE 60]]

(***************************************************************************)
(* insert_extracted_sources: the sourcefinder tuples and their conversion. *)
(***************************************************************************)
\* float('inf'): error_radius of an unconstrained fit (never a real radius).
Infinity == -1

\* A sourcefinder detection: the 15 values of the docstring, src[i+1] being
\* the docstring's (i).  ra, decl in half degrees; the errors in arcsec.
Detection(ra, decl, ew_sys_err, ns_sys_err, error_radius, int_flux) ==
    <<ra, decl, 0, 0, int_flux, 1, int_flux, 1, 10, 0, 0, 0,
      ew_sys_err, ns_sys_err, error_radius>>

\* The detections a caller may pass: one with constrained errors and one,
\* with an unconstrained error radius, one degree east and 60 degrees north.
Detections ==
    { Detection(20, 0, 360, 360, 360, 5),
      Detection(22, 120, 3600, 360, Infinity, 9) }

\* The result lists a caller may pass: up to MaxBatch detections, listed by
\* right ascension (repetitions allowed).
RECURSIVE SeqsUpTo(_, _)
SeqsUpTo(S, n) ==
    IF n = 0 THEN {<< >>}
    ELSE LET shorter == SeqsUpTo(S, n - 1)
         IN  shorter \cup
             UNION { { Append(s, x) : x \in {y \in S : \A i \in 1..(n - 1) : s[i][1] <= y[1]} }
                     : s \in {t \in shorter : Len(t) = n - 1} }

ResultLists == SeqsUpTo(Detections, MaxBatch)

ImageIds == DOMAIN image

ExtractArgs == {"blind", "ff_nd", "ff_ms", "user"}

\* tkp.utility.substitute_inf
substitute_inf(x, replacement) == IF x = Infinity THEN replacement ELSE x

\* A bug: an unrecognised extract argument is stored as a blind extraction.
ExtractTypeDefault(extract) ==
    CASE extract = "blind" -> 0
      [] extract = "ff_nd" -> 1
      [] extract = "ff_ms" -> 2
      [] OTHER -> 0

\* The if/elif chain on extract: the extract_type appended to the row, or
\* -1 where the else branch raises ValueError.
ExtractType(extract) ==
    CASE extract = "blind" -> 0
      [] extract = "ff_nd" -> 1
      [] extract = "ff_ms" -> 2
      [] OTHER -> -1

\* The loop raises on its first pass for an extract argument that is not
\* recognised.
Raises(extract) == ExtractType(extract) = -1

\* One pass of the loop over results: the row to insert (its id is given by
\* the database).  uncertainty_ew_sq is the square of the code's
\* sqrt(r[12]**2 + r[14]**2)/3600., counted in (tenths of a degree)^2.
Enrich(src, image_id, extract) ==
    LET error_radius == substitute_inf(src[15], 360)
    IN  [ra                |-> src[1],
         decl              |-> src[2],
         f_int             |-> src[7],
         f_int_err         |-> src[8],
         ew_sys_err        |-> src[13],
         ns_sys_err        |-> src[14],
         error_radius      |-> error_radius,
         uncertainty_ew_sq |-> (src[13] * src[13] + error_radius * error_radius) \div (360 * 360),
         uncertainty_ns_sq |-> (src[14] * src[14] + error_radius * error_radius) \div (360 * 360),
         image             |-> image_id,
         zone              |-> Floor(src[2]),
         extract_type      |-> ExtractType(extract)]

\* xtrsrc: the rows built by the loop, in the order of results.
Xtrsrc(image_id, results, extract) ==
    [i \in 1..Len(results) |-> Enrich(results[i], image_id, extract)]

\* A bug: one INSERT statement (and commit) per row.
InsertQueryPerRow(values) == [i \in 1..Len(values) |-> <<values[i]>>]

\* The statements handed to tkp.db.execute: a single INSERT carrying every
\* VALUES tuple.
InsertQuery(values) == <<values>>

\* A bug: no early return for an empty result list.
IsEmptyNever(results) == FALSE

\* "if not len(results)"
IsEmpty(results) == Len(results) = 0

Outcome(op, args, kind, value, log) ==
    [op |-> op, args |-> args, kind |-> kind, value |-> value, log |-> log]

WithId(row, id) ==
    [id                |-> id,
     ra                |-> row.ra,
     decl              |-> row.decl,
     f_int             |-> row.f_int,
     f_int_err         |-> row.f_int_err,
     ew_sys_err        |-> row.ew_sys_err,
     ns_sys_err        |-> row.ns_sys_err,
     error_radius      |-> row.error_radius,
     uncertainty_ew_sq |-> row.uncertainty_ew_sq,
     uncertainty_ns_sq |-> row.uncertainty_ns_sq,
     image             |-> row.image,
     zone              |-> row.zone,
     extract_type      |-> row.extract_type]

InsertArgs(image_id, results, extract) ==
    [image_id |-> image_id, results |-> results, extract |-> extract]

\* No insert_extracted_sources call is running.
NoCall == InsertArgs(0, << >>, "")

\* insert_extracted_sources up to the call of tkp.db.execute.
InsertExtractedSources(image_id, results, extract) ==
    /\ pc = "idle"
    /\ IF IsEmpty(results)
       THEN /\ ret' = Outcome("insert_extracted_sources",
                              InsertArgs(image_id, results, extract), "None", << >>,
                              [msg |-> "No sources added", n |-> 0])
            /\ UNCHANGED <<pc, stmts, call>>
       ELSE IF Raises(extract)
       THEN /\ ret' = Outcome("insert_extracted_sources",
                              InsertArgs(image_id, results, extract), "raise", << >>,
                              [msg |-> "ValueError", n |-> 0])
            /\ UNCHANGED <<pc, stmts, call>>
       ELSE /\ nextid + Len(results) - 1 <= MaxId
            /\ stmts' = InsertQuery(Xtrsrc(image_id, results, extract))
            /\ call' = InsertArgs(image_id, results, extract)
            /\ pc' = "execute"
            /\ ret' = Outcome("insert_extracted_sources",
                              InsertArgs(image_id, results, extract), "running", << >>,
                              [msg |-> "", n |-> 0])
    /\ UNCHANGED <<extractedsource, assocxtrsource, catalogedsource, runningcatalog, txn, nextid>>

\* tkp.db.execute(query, commit=True): the statement runs in a transaction
\* and writes its rows, which stay invisible until the commit.
Execute ==
    /\ pc = "execute"
    /\ LET values == Head(stmts)
       IN  /\ txn' = { WithId(values[i], nextid + i - 1) : i \in 1..Len(values) }
           /\ nextid' = nextid + Len(values)
    /\ pc' = "commit"
    /\ UNCHANGED <<extractedsource, assocxtrsource, catalogedsource, runningcatalog, stmts, call, ret>>

\* The commit: the rows of the transaction become visible together; the
\* call then logs the row count and returns (nothing).
Commit ==
    /\ pc = "commit"
    /\ extractedsource' = extractedsource \cup txn
    /\ txn' = {}
    /\ stmts' = Tail(stmts)
    /\ IF Tail(stmts) = << >>
       THEN /\ pc' = "idle"
            /\ ret' = Outcome("insert_extracted_sources", call, "None", << >>,
                              [msg |-> "Inserted", n |-> Cardinality(txn)])
            /\ call' = NoCall
       ELSE /\ pc' = "execute"
            /\ UNCHANGED <<ret, call>>
    /\ UNCHANGED <<assocxtrsource, catalogedsource, runningcatalog, nextid>>

\* The statement fails, or the call is aborted before the commit: the
\* transaction is rolled back and the error reaches the caller.
Abort ==
    /\ pc \in {"execute", "commit"}
    /\ txn' = {}
    /\ stmts' = << >>
    /\ pc' = "idle"
    /\ ret' = Outcome("insert_extracted_sources", call, "raise", << >>,
                      [msg |-> "DatabaseError", n |-> 0])
    /\ call' = NoCall
    /\ UNCHANGED <<extractedsource, assocxtrsource, catalogedsource, runningcatalog, nextid>>

(***************************************************************************)
(* The spatial prefilter and the De Ruiter radius.                         *)
(***************************************************************************)
\* The database function alpha(theta, decl): the half width in right
\* ascension of a window of theta around declination decl; the whole circle
\* once the window reaches a pole, theta / COS(decl) otherwise (decl is 0 or
\* +-60 degrees here, COS(decl) 1 or 1/2).
alpha(theta, decl) ==
    IF Abs(decl) + theta >= 180 THEN 360
    ELSE IF decl = 0 THEN theta ELSE 2 * theta

\* zone BETWEEN FLOOR(decl0 - theta) AND FLOOR(decl0 + theta)
\* AND decl BETWEEN decl0 - theta AND decl0 + theta
\* AND ra BETWEEN ra0 - alpha(theta, decl0) AND ra0 + alpha(theta, decl0)
Prefilter(ra0, decl0, ra, decl, zone, theta) ==
    /\ Floor(decl0 - theta) <= zone /\ zone <= Floor(decl0 + theta)
    /\ decl0 - theta <= decl /\ decl <= decl0 + theta
    /\ ra0 - alpha(theta, decl0) <= ra /\ ra <= ra0 + alpha(theta, decl0)

\* The square of
\*   SQRT(dra * COS * dra * COS / sum_ew + ddecl * ddecl / sum_ns)
\* with dra, ddecl in half degrees, cos4 = 4 * COS^2 and sum_ew, sum_ns the
\* sums of squared uncertainties in (tenths of a degree)^2, both positive.
DeRuiterSq(dra, ddecl, cos4, sum_ew, sum_ns) ==
    RatAdd(Rat(25 * dra * dra * cos4, 4 * sum_ew), Rat(25 * ddecl * ddecl, sum_ns))

\* SQRT(e) < r, for e the square above and r a cutoff in tenths.
SqrtLess(e, r) == r > 0 /\ RatLess(e, Rat(r * r, 100))

(***************************************************************************)
(* filter_userdetections_extracted_sources                                 *)
(***************************************************************************)
\* A bug: the rows to remove are taken among the blind detections.
FilterVictimBlind(x0) == x0.extract_type = 0

\* x0.extract_type = 3
FilterVictim(x0) == x0.extract_type = 3

\* x1.extract_type IN (0, 1, 2)
FilterCounterpart(x1) == x1.extract_type \in {0, 1, 2}

\* The conditions of the subquery before the De Ruiter radius.
FilterJoin(x0, x1, image_id, assoc_theta) ==
    /\ x0.image = image_id
    /\ FilterVictim(x0)
    /\ x1.image = image_id
    /\ FilterCounterpart(x1)
    /\ Prefilter(x0.ra, x0.decl, x1.ra, x1.decl, x1.zone, assoc_theta)

SumEw(x0, x1) == x0.uncertainty_ew_sq + x1.uncertainty_ew_sq

SumNs(x0, x1) == x0.uncertainty_ns_sq + x1.uncertainty_ns_sq

\* The De Ruiter radius of the subquery, squared: the cosine is taken at the
\* mean declination (x0.decl + x1.decl)/2.
FilterDeRuiterSq(x0, x1) ==
    DeRuiterSq(x0.ra - x1.ra, x0.decl - x1.decl, CosSq4(x0.decl + x1.decl),
               SumEw(x0, x1), SumNs(x0, x1))

FilterArgs(image_id, deRuiter_r, assoc_theta) ==
    [image_id |-> image_id, deRuiter_r |-> deRuiter_r, assoc_theta |-> assoc_theta]

\* The DELETE runs as one statement and is committed by tkp.db.execute.  A
\* joined pair whose squared uncertainties sum to zero makes the statement
\* fail with a division by zero, and nothing is deleted.
FilterUserdetectionsExtractedSources(image_id, deRuiter_r, assoc_theta) ==
    /\ pc = "idle"
    /\ LET joined == { p \in extractedsource \X extractedsource :
                          FilterJoin(p[1], p[2], image_id, assoc_theta) }
           ids == { p[1].id : p \in { q \in joined :
                        SqrtLess(FilterDeRuiterSq(q[1], q[2]), deRuiter_r) } }
       IN  IF \E p \in joined : SumEw(p[1], p[2]) = 0 \/ SumNs(p[1], p[2]) = 0
           THEN /\ ret' = Outcome("filter_userdetections_extracted_sources",
                                  FilterArgs(image_id, deRuiter_r, assoc_theta),
                                  "raise", << >>, [msg |-> "division by zero", n |-> 0])
                /\ UNCHANGED extractedsource
           ELSE /\ extractedsource' = { x \in extractedsource : x.id \notin ids }
                /\ ret' = Outcome("filter_userdetections_extracted_sources",
                                  FilterArgs(image_id, deRuiter_r, assoc_theta),
                                  "None", << >>,
                                  [msg |-> IF ids = {} THEN "No user-entry sources removed"
                                                       ELSE "Removed",
                                   n |-> Cardinality(ids)])
    /\ UNCHANGED <<assocxtrsource, catalogedsource, runningcatalog, pc, stmts, txn, call, nextid>>

\* The cutoffs (tenths) and search radii (half degrees) a caller may pass.
DeRuiterCutoffs == {37}

AssocThetas == {1, 120}

(***************************************************************************)
(* The store: bulk insert and removal of user detections.                  *)
(***************************************************************************)
NoOutcome == Outcome("none", << >>, "None", << >>, [msg |-> "", n |-> 0])

Init ==
    /\ extractedsource = {}
    /\ assocxtrsource = {}
    /\ catalogedsource = {}
    /\ runningcatalog = {}
    /\ pc = "idle"
    /\ stmts = << >>
    /\ txn = {}
    /\ call = NoCall
    /\ nextid = 1
    /\ ret = NoOutcome

Next ==
    \/ \E image_id \in ImageIds, results \in ResultLists, extract \in ExtractArgs :
          InsertExtractedSources(image_id, results, extract)
    \/ Execute
    \/ Commit
    \/ Abort
    \/ \E image_id \in ImageIds, deRuiter_r \in DeRuiterCutoffs, assoc_theta \in AssocThetas :
          FilterUserdetectionsExtractedSources(image_id, deRuiter_r, assoc_theta)

Spec == Init /\ [][Next]_vars

(***************************************************************************)
(* Removal of user detections: claims C1 and C2.                           *)
(***************************************************************************)
\* x1 lies in the assoc_theta window of x0 and their De Ruiter radius is
\* defined and below deRuiter_r.
Coincident(x0, x1, deRuiter_r, assoc_theta) ==
    /\ Prefilter(x0.ra, x0.decl, x1.ra, x1.decl, x1.zone, assoc_theta)
    /\ SumEw(x0, x1) > 0
    /\ SumNs(x0, x1) > 0
    /\ SqrtLess(FilterDeRuiterSq(x0, x1), deRuiter_r)

FilterReturned ==
    ret.op = "filter_userdetections_extracted_sources" /\ ret.kind = "None"

C2_FilterRemovesNothingElse ==
    [][ ret'.op = "filter_userdetections_extracted_sources" =>
          /\ extractedsource' \subseteq extractedsource
          /\ \A x \in extractedsource :
                \/ x \in extractedsource'
                \/ /\ x.image = ret'.args.image_id
                   /\ x.extract_type = ExtractType("ff_nd")
                   /\ \E x1 \in extractedsource :
                         /\ x1.image = x.image
                         /\ x1.extract_type \in {ExtractType("blind"), ExtractType("ff_ms")}
                         /\ Coincident(x, x1, ret'.args.deRuiter_r, ret'.args.assoc_theta)
      ]_vars

\* The filter has returned for an image that holds a blind detection and a
\* forced-null detection with no counterpart, both still stored.
C2_Witness ==
    /\ FilterReturned
    /\ \E x0, x1 \in extractedsource :
          /\ x0.image = ret.args.image_id /\ x0.extract_type = ExtractType("ff_nd")
          /\ x1.image = ret.args.image_id /\ x1.extract_type = ExtractType("blind")
          /\ ~Coincident(x0, x1, ret.args.deRuiter_r, ret.args.assoc_theta)

(***************************************************************************)
(* Bulk insert: claims C3, C4 and C5.                                      *)
(***************************************************************************)
StripId(x) ==
    [ra                |-> x.ra,
     decl              |-> x.decl,
     f_int             |-> x.f_int,
     f_int_err         |-> x.f_int_err,
     ew_sys_err        |-> x.ew_sys_err,
     ns_sys_err        |-> x.ns_sys_err,
     error_radius      |-> x.error_radius,
     uncertainty_ew_sq |-> x.uncertainty_ew_sq,
     uncertainty_ns_sq |-> x.uncertainty_ns_sq,
     image             |-> x.image,
     zone              |-> x.zone,
     extract_type      |-> x.extract_type]

\* C3: the detections visible to a reader never hold a strict non-empty
\* part of a batch: a step that makes detections visible makes the whole
\* batch of the running insert_extracted_sources call visible at once (one
\* new row per detection of the batch, in the batch's image and extract
\* type), and a step that fails or aborts the call makes none visible.
C3_InsertAllOrNothing ==
    [][ \/ extractedsource' \subseteq extractedsource
        \/ /\ extractedsource \subseteq extractedsource'
           /\ ret'.kind = "None"
           /\ LET new == extractedsource' \ extractedsource
              IN  /\ Cardinality(new) = Len(call.results)
                  /\ \A i \in 1..Len(call.results) :
                        \E x \in new :
                           StripId(x) = Enrich(call.results[i], call.image_id, call.extract)
      ]_vars

\* A batch of two detections has been committed and is visible.
C3_Witness ==
    /\ ret.op = "insert_extracted_sources"
    /\ ret.kind = "None"
    /\ Len(ret.args.results) = 2
    /\ Cardinality(extractedsource) = 2

InsertCallStep == pc = "idle" /\ ret'.op = "insert_extracted_sources"

Tables == <<extractedsource, assocxtrsource, catalogedsource, runningcatalog, txn>>

\* C4 (as claimed): every call of insert_extracted_sources whose extract is
\* none of 'blind', 'ff_nd', 'ff_ms' ends in an error reported to the caller,
\* whatever the result list is, and leaves the store as it was.
C4_UnrecognisedAlwaysRejected ==
    [][ (InsertCallStep /\ ret'.args.extract \notin {"blind", "ff_nd", "ff_ms"}) =>
          (ret'.kind = "raise" /\ pc' = "idle" /\ UNCHANGED Tables)
      ]_vars

\* C4 (amended): every call of insert_extracted_sources with a non-empty
\* result list whose extract is none of 'blind', 'ff_nd', 'ff_ms' raises
\* ValueError and leaves the store as it was.
C4_UnrecognisedNonEmptyRejected ==
    [][ (/\ InsertCallStep
         /\ ret'.args.extract \notin {"blind", "ff_nd", "ff_ms"}
         /\ Len(ret'.args.results) > 0) =>
          (/\ ret'.kind = "raise"
           /\ ret'.log.msg = "ValueError"
           /\ pc' = "idle"
           /\ UNCHANGED Tables)
      ]_vars

\* A call with two detections and an unrecognised extract has raised
\* ValueError on a store that holds detections.
C4_Witness ==
    /\ ret.op = "insert_extracted_sources"
    /\ ret.args.extract = "user"
    /\ Len(ret.args.results) = 2
    /\ ret.kind = "raise"
    /\ ret.log.msg = "ValueError"
    /\ extractedsource # {}

\* C5 (as claimed): a call of insert_extracted_sources with an empty result
\* list leaves the store unchanged, is not an error, and hands the caller a
\* result that reports a count of zero.
C5_EmptyInsertReturnsZeroCount ==
    [][ (InsertCallStep /\ Len(ret'.args.results) = 0) =>
          (/\ ret'.kind = "count"
           /\ ret'.value = <<0>>
           /\ UNCHANGED Tables)
      ]_vars

\* C5 (amended): a call of insert_extracted_sources with an empty result
\* list leaves the store unchanged, is not an error and returns nothing
\* (None): that no sources were added is written to the log only.
C5_EmptyInsertIsNoOp ==
    [][ (InsertCallStep /\ Len(ret'.args.results) = 0) =>
          (/\ ret'.kind = "None"
           /\ ret'.value = << >>
           /\ ret'.log = [msg |-> "No sources added", n |-> 0]
           /\ pc' = "idle"
           /\ UNCHANGED Tables)
      ]_vars

\* An empty insert has returned on a store that holds detections.
C5_Witness ==
    /\ ret.op = "insert_extracted_sources"
    /\ Len(ret.args.results) = 0
    /\ ret.kind = "None"
    /\ extractedsource # {}

(***************************************************************************)
(* lightcurve                                                              *)
(***************************************************************************)
RuncatIds == {1, 2}

\* An association of a stored detection with a running source is recorded
\* in assocxtrsource.
AssociateXtrsrc(runcat, xtrsrc) ==
    /\ pc = "idle"
    /\ Cardinality(assocxtrsource) < MaxEdges
    /\ xtrsrc \in { x.id : x \in extractedsource }
    /\ <<runcat, xtrsrc>> \notin assocxtrsource
    /\ assocxtrsource' = assocxtrsource \cup {<<runcat, xtrsrc>>}
    /\ ret' = Outcome("associate", [runcat |-> runcat, xtrsrc |-> xtrsrc],
                      "None", << >>, [msg |-> "", n |-> 0])
    /\ UNCHANGED <<extractedsource, catalogedsource, runningcatalog, pc, stmts, txn,
                   call, nextid>>

\* A bug: the subquery has lost its WHERE clause.
LightcurveRuncatsAll(xtrsrc) == { ax[1] : ax \in assocxtrsource }

\* SELECT runcat FROM assocxtrsource WHERE xtrsrc = %(xtrsrc)s
LightcurveRuncats(xtrsrc) ==
    { ax[1] : ax \in { a \in assocxtrsource : a[2] = xtrsrc } }

\* The join of the FROM and WHERE clauses: the pairs <<ax, ex>> that give
\* one result row each.
LightcurveJoin(xtrsrc) ==
    { p \in assocxtrsource \X extractedsource :
        /\ p[1][1] \in LightcurveRuncats(xtrsrc)
        /\ p[1][2] = p[2].id
        /\ p[2].image \in DOMAIN image
        /\ image[p[2].image].band \in DOMAIN frequencyband }

\* The SELECT list for one joined pair.
LightcurveRow(p) ==
    LET ex == p[2]
        im == image[ex.image]
        bd == frequencyband[im.band]
    IN  <<im.taustart_ts, im.tau_time, ex.f_int, ex.f_int_err, ex.id, im.band,
          im.stokes, bd.freq_central>>

\* A bug: ORDER BY ex.id.
RECURSIVE OrderById(_)
OrderById(rows) ==
    IF rows = {} THEN {<< >>}
    ELSE UNION { { <<r>> \o rest : rest \in OrderById(rows \ {r}) }
                 : r \in { q \in rows : \A o \in rows : q[2].id <= o[2].id } }

\* ORDER BY im.taustart_ts: every arrangement of the joined pairs in which
\* the observation start times do not decrease (the order among equal start
\* times is the database's choice).
RECURSIVE OrderByTaustart(_)
OrderByTaustart(rows) ==
    IF rows = {} THEN {<< >>}
    ELSE UNION { { <<r>> \o rest : rest \in OrderByTaustart(rows \ {r}) }
                 : r \in { q \in rows : \A o \in rows :
                             image[q[2].image].taustart_ts <= image[o[2].image].taustart_ts } }

\* lightcurve(xtrsrcid): cursor.fetchall() of lightcurve_query.
Lightcurve(xtrsrcid) ==
    /\ pc = "idle"
    /\ \E ordered \in OrderByTaustart(LightcurveJoin(xtrsrcid)) :
          ret' = Outcome("lightcurve", [xtrsrc |-> xtrsrcid], "list",
                         [i \in 1..Len(ordered) |-> LightcurveRow(ordered[i])],
                         [msg |-> "", n |-> 0])
    /\ UNCHANGED <<extractedsource, assocxtrsource, catalogedsource, runningcatalog,
                   pc, stmts, txn, call, nextid>>

\* The identifiers a caller may ask for: the stored ones and one that is not.
XtrsrcIds == 1..(MaxId + 1)

NextLightcurve ==
    \/ \E image_id \in ImageIds, src \in Detections :
          InsertExtractedSources(image_id, <<src>>, "blind")
    \/ Execute
    \/ Commit
    \/ \E runcat \in RuncatIds, xtrsrc \in XtrsrcIds : AssociateXtrsrc(runcat, xtrsrc)
    \/ \E xtrsrcid \in XtrsrcIds : Lightcurve(xtrsrcid)

SpecLightcurve == Init /\ [][NextLightcurve]_vars

(***************************************************************************)
(* lightcurve: claims C6, C7 and C8.                                       *)
(***************************************************************************)
LightcurveReturned == ret.op = "lightcurve" /\ ret.kind = "list"

\* C6: the list lightcurve(xtrsrcid) returns holds every stored detection
\* that has an association edge to a running source xtrsrcid is associated
\* with, each with the observation start time of its image, and these start
\* times do not decrease along the list.
C6_LightcurveCompleteAndOrdered ==
    ret.op = "lightcurve" =>
        /\ ret.kind = "list"
        /\ \A ex \in extractedsource :
              (\E rc \in RuncatIds : /\ <<rc, ex.id>> \in assocxtrsource
                                     /\ <<rc, ret.args.xtrsrc>> \in assocxtrsource)
              => \E i \in 1..Len(ret.value) : ret.value[i][5] = ex.id
        /\ \A i \in 1..Len(ret.value) :
              \E ex \in extractedsource :
                 /\ ex.id = ret.value[i][5]
                 /\ ret.value[i][1] = image[ex.image].taustart_ts
        /\ \A i, j \in 1..Len(ret.value) :
              i < j => ret.value[i][1] <= ret.value[j][1]

\* A light curve of two detections in which the detection inserted last
\* (in the image observed first) comes first.
C6_Witness ==
    /\ LightcurveReturned
    /\ Len(ret.value) >= 2
    /\ ret.value[1][5] > ret.value[2][5]
    /\ ret.value[1][1] < ret.value[2][1]

\* C7: lightcurve(xtrsrcid) changes none of the four relations, and for an
\* identifier that is not stored, or that has no association edge, it
\* returns the empty list instead of raising.
C7_LightcurveUnknownIsEmpty ==
    [][ ret'.op = "lightcurve" =>
          /\ UNCHANGED <<extractedsource, runningcatalog, catalogedsource, assocxtrsource>>
          /\ ret'.kind = "list"
          /\ ( \/ ret'.args.xtrsrc \notin { x.id : x \in extractedsource }
               \/ ~ \E ax \in assocxtrsource : ax[2] = ret'.args.xtrsrc )
             => ret'.value = << >>
      ]_vars

\* lightcurve has returned the empty list for an identifier that is not
\* stored, while detections and association edges are.
C7_Witness ==
    /\ LightcurveReturned
    /\ ret.value = << >>
    /\ ret.args.xtrsrc \notin { x.id : x \in extractedsource }
    /\ extractedsource # {}
    /\ assocxtrsource # {}

\* C8 (as claimed): every element lightcurve returns is a 7-tuple: start
\* time, integration time, integrated flux, its error, detection id,
\* frequency-band id and stokes, with no further field.
C8_LightcurveSevenTuples ==
    ret.op = "lightcurve" =>
        \A i \in 1..Len(ret.value) :
           /\ Len(ret.value[i]) = 7
           /\ \E ex \in extractedsource :
                 ret.value[i] = <<image[ex.image].taustart_ts, image[ex.image].tau_time,
                                  ex.f_int, ex.f_int_err, ex.id, image[ex.image].band,
                                  image[ex.image].stokes>>

(***************************************************************************)
(* match_nearests_in_catalogs                                              *)
(***************************************************************************)
\* Exact trigonometry on right ascensions that are multiples of 60 degrees
\* and declinations 0 and +-60 degrees (angles in half degrees):
\* 2 * COS(a), and SIN(a) counted in units of SQRT(3)/2.
Cos2(a) ==
    CASE a = 0 -> 2
      [] a = 120 \/ a = -120 \/ a = 600 -> 1
      [] a = 240 \/ a = 480 -> -1
      [] a = 360 -> -2

SinR3(a) ==
    CASE a = 0 \/ a = 360 -> 0
      [] a = 120 \/ a = 240 -> 1
      [] a = -120 \/ a = 480 \/ a = 600 -> -1

\* The Cartesian columns x, y, z of a position: x is counted in quarters, y
\* and z in units of SQRT(3)/4, so that 16 * (x*x' + y*y' + z*z') is the
\* integer Dot16 below.
Cartesian(ra, decl) ==
    [x |-> Cos2(decl) * Cos2(ra), y |-> Cos2(decl) * SinR3(ra), z |-> 2 * SinR3(decl)]

\* 16 * (c.x * r.x + c.y * r.y + c.z * r.z)
Dot16(c, r) == c.x * r.x + 3 * c.y * r.y + 3 * c.z * r.z

\* FLOOR(16 * COS(RADIANS(radius))): an integer exceeds 16 * COS(..) exactly
\* when it exceeds this floor.
Cos16Floor(radius) ==
    CASE radius = 1   -> 15
      [] radius = 120 -> 8
      [] radius = 180 -> 0
      [] radius = 240 -> -8

\* Table catalog.
catalog == [id \in {1, 2} |-> [name |-> IF id = 1 THEN "NVSS" ELSE "VLSS"]]

CatalogedSource(id, cat, ra, decl, uncertainty_ew, uncertainty_ns) ==
    [id |-> id, catsrcname |-> id, catalog |-> cat, ra |-> ra, decl |-> decl,
     uncertainty_ew |-> uncertainty_ew, uncertainty_ns |-> uncertainty_ns,
     zone |-> Floor(decl),
     x |-> Cartesian(ra, decl).x, y |-> Cartesian(ra, decl).y, z |-> Cartesian(ra, decl).z]

\* The catalogue sources the table may hold (uncertainties in tenths of a
\* degree).
CatalogedSources ==
    { CatalogedSource(1, 1, 0, 0, 60, 60),
      CatalogedSource(2, 1, 120, 0, 120, 120),
      CatalogedSource(3, 1, 120, 120, 60, 120),
      CatalogedSource(4, 2, 120, 120, 120, 120),
      CatalogedSource(5, 2, 0, -120, 60, 60),
      CatalogedSource(6, 2, 240, -120, 60, 120),
      CatalogedSource(7, 2, 600, 0, 120, 120) }

RunningSource(id, wm_ra, wm_decl, wm_uncertainty_ew, wm_uncertainty_ns) ==
    [id |-> id, wm_ra |-> wm_ra, wm_decl |-> wm_decl,
     wm_uncertainty_ew |-> wm_uncertainty_ew, wm_uncertainty_ns |-> wm_uncertainty_ns,
     x |-> Cartesian(wm_ra, wm_decl).x, y |-> Cartesian(wm_ra, wm_decl).y,
     z |-> Cartesian(wm_ra, wm_decl).z]

\* The running sources of table runningcatalog.
RunningSources ==
    { RunningSource(1, 0, 0, 120, 120),
      RunningSource(2, 0, -120, 120, 120) }

MatchSumEw(r, c) ==
    r.wm_uncertainty_ew * r.wm_uncertainty_ew + c.uncertainty_ew * c.uncertainty_ew

MatchSumNs(r, c) ==
    r.wm_uncertainty_ns * r.wm_uncertainty_ns + c.uncertainty_ns * c.uncertainty_ns

\* The De Ruiter radius of the WHERE clause, squared: the cosine is taken at
\* the mean declination (r.wm_decl + c.decl)/2.
MatchDeRuiterSq(r, c) ==
    DeRuiterSq(r.wm_ra - c.ra, r.wm_decl - c.decl, CosSq4(r.wm_decl + c.decl),
               MatchSumEw(r, c), MatchSumNs(r, c))

\* The column assoc_r of the SELECT list, squared: the cosine is taken at
\* the declination of the running source, COS(RADIANS(r.wm_decl)).
AssocRSq(r, c) ==
    DeRuiterSq(r.wm_ra - c.ra, r.wm_decl - c.decl, CosSq4(2 * r.wm_decl),
               MatchSumEw(r, c), MatchSumNs(r, c))

\* The conditions of the WHERE clause before the De Ruiter radius.
MatchJoin(r, c, runcatid, radius) ==
    /\ r.id = runcatid
    /\ Prefilter(r.wm_ra, r.wm_decl, c.ra, c.decl, c.zone, radius)
    /\ Dot16(c, r) > Cos16Floor(radius)
    /\ c.catalog \in DOMAIN catalog

\* One row of the result with its descriptions.  assoc_r holds the square
\* of the reported radius as a rational; dist_arcsec holds 16 times the
\* squared chord between the unit vectors, of which the reported distance
\* 3600 * DEGREES(2 * ASIN(chord / 2)) is an increasing function.
MatchRow(r, c) ==
    [catsrcid       |-> c.id,
     catsrcname     |-> c.catsrcname,
     catid          |-> c.catalog,
     catname        |-> catalog[c.catalog].name,
     ra             |-> c.ra,
     decl           |-> c.decl,
     uncertainty_ew |-> c.uncertainty_ew,
     uncertainty_ns |-> c.uncertainty_ns,
     dist_arcsec    |-> 32 - 2 * Dot16(c, r),
     assoc_r        |-> AssocRSq(r, c)]

\* ORDER BY c.catalog, assoc_r: every arrangement of the rows by catalog
\* and, within a catalog, by non-decreasing assoc_r.
RECURSIVE OrderByCatalogAssocR(_)
OrderByCatalogAssocR(rows) ==
    IF rows = {} THEN {<< >>}
    ELSE UNION { { <<m>> \o rest : rest \in OrderByCatalogAssocR(rows \ {m}) }
                 : m \in { q \in rows : \A o \in rows :
                             \/ q.catid < o.catid
                             \/ q.catid = o.catid /\ RatLeq(q.assoc_r, o.assoc_r) } }

MatchArgs(runcatid, radius, deRuiter_r) ==
    [runcatid |-> runcatid, radius |-> radius, deRuiter_r |-> deRuiter_r]

\* match_nearests_in_catalogs(runcatid, radius, deRuiter_r): the list of
\* dictionaries built from cursor.fetchall().  A joined pair whose squared
\* uncertainties sum to zero makes the query fail with a division by zero.
MatchNearestsInCatalogs(runcatid, radius, deRuiter_r) ==
    /\ pc = "idle"
    /\ LET joined == { p \in runningcatalog \X catalogedsource :
                          MatchJoin(p[1], p[2], runcatid, radius) }
           rows == { MatchRow(p[1], p[2]) : p \in { q \in joined :
                        SqrtLess(MatchDeRuiterSq(q[1], q[2]), deRuiter_r) } }
       IN  IF \E p \in joined : MatchSumEw(p[1], p[2]) = 0 \/ MatchSumNs(p[1], p[2]) = 0
           THEN ret' = Outcome("match_nearests_in_catalogs",
                               MatchArgs(runcatid, radius, deRuiter_r),
                               "raise", << >>, [msg |-> "division by zero", n |-> 0])
           ELSE \E result_dicts \in OrderByCatalogAssocR(rows) :
                   ret' = Outcome("match_nearests_in_catalogs",
                                  MatchArgs(runcatid, radius, deRuiter_r),
                                  "list", result_dicts, [msg |-> "", n |-> 0])
    /\ UNCHANGED <<extractedsource, assocxtrsource, catalogedsource, runningcatalog,
                   pc, stmts, txn, call, nextid>>

\* The search radii (half degrees) and cutoffs (tenths) a caller may pass.
MatchRadii == {1, 180, 240}

MatchCutoffs == {37, 50, 55}

\* The catalogue tables are filled before the engine runs and only read.
InitMatch ==
    /\ extractedsource = {}
    /\ assocxtrsource = {}
    /\ catalogedsource \in { S \in SUBSET CatalogedSources : Cardinality(S) <= MaxCatSources }
    /\ runningcatalog = RunningSources
    /\ pc = "idle"
    /\ stmts = << >>
    /\ txn = {}
    /\ call = NoCall
    /\ nextid = 1
    /\ ret = NoOutcome

NextMatch ==
    \E runcatid \in RuncatIds, radius \in MatchRadii, deRuiter_r \in MatchCutoffs :
       MatchNearestsInCatalogs(runcatid, radius, deRuiter_r)

SpecMatch == InitMatch /\ [][NextMatch]_vars

(***************************************************************************)
(* match_nearests_in_catalogs: claims C9 and C10.                          *)
(***************************************************************************)
MatchReturned == ret.op = "match_nearests_in_catalogs" /\ ret.kind = "list"

\* The running source the latest match was made for.
MatchedRunningSource == CHOOSE r \in runningcatalog : r.id = ret.args.runcatid

\* The acceptance statistic of a returned record: the De Ruiter radius of
\* the WHERE clause, squared, recomputed from the record's position and
\* uncertainties.
AcceptanceSq(d) ==
    MatchDeRuiterSq(MatchedRunningSource,
                    [ra |-> d.ra, decl |-> d.decl, uncertainty_ew |-> d.uncertainty_ew,
                     uncertainty_ns |-> d.uncertainty_ns])

\* C9 (as claimed): every record match_nearests_in_catalogs returns carries
\* an assoc_r strictly smaller than deRuiter_r.
C9_ReportedRadiusBelowCutoff ==
    MatchReturned =>
        \A i \in 1..Len(ret.value) :
           SqrtLess(ret.value[i].assoc_r, ret.args.deRuiter_r)

\* C10 (as claimed): the records of one catalog are contiguous, the
\* catalogs come in ascending id, within a catalog assoc_r does not
\* decrease, and the first record of each catalog has the smallest De
\* Ruiter radius, under the statistic used for acceptance, among the
\* returned records of that catalog.
C10_FirstOfCatalogIsBestAccepted ==
    MatchReturned =>
        /\ \A i, j \in 1..Len(ret.value) :
              i < j =>
                 \/ ret.value[i].catid < ret.value[j].catid
                 \/ /\ ret.value[i].catid = ret.value[j].catid
                    /\ RatLeq(ret.value[i].assoc_r, ret.value[j].assoc_r)
        /\ \A i, j \in 1..Len(ret.value) :
              ( /\ ret.value[i].catid = ret.value[j].catid
                /\ \A k \in 1..(i - 1) : ret.value[k].catid # ret.value[i].catid )
              => RatLeq(AcceptanceSq(ret.value[i]), AcceptanceSq(ret.value[j]))

(***************************************************************************)
(* The spatial prefilter: claim C11.                                       *)
(***************************************************************************)
\* The true angular separation of catalog source c from running source r
\* is below radius: the cosine of the angle between the unit vectors
\* exceeds COS(radius).
SeparationBelow(r, c, radius) == Dot16(c, r) > Cos16Floor(radius)

\* C11 (as claimed): after match_nearests_in_catalogs(runcatid, radius, ..)
\* every stored catalog source whose true angular separation from the
\* running source is within radius passes the zone filter, the declination
\* band and the right-ascension band of the query, also across the wrap of
\* right ascension at 0/360.
C11_PrefilterKeepsTrueMatches ==
    MatchReturned =>
        \A c \in catalogedsource :
           SeparationBelow(MatchedRunningSource, c, ret.args.radius) =>
              Prefilter(MatchedRunningSource.wm_ra, MatchedRunningSource.wm_decl,
                        c.ra, c.decl, c.zone, ret.args.radius)

(***************************************************************************)
(* Symmetry of the De Ruiter radius: claim C12.                            *)
(***************************************************************************)
\* The running source that stands where the returned record d stands, and
\* the catalog source that stands where running source r stands: the pair
\* with positions and uncertainties exchanged.
AsRunningSource(d) ==
    [wm_ra |-> d.ra, wm_decl |-> d.decl,
     wm_uncertainty_ew |-> d.uncertainty_ew, wm_uncertainty_ns |-> d.uncertainty_ns]

AsCatalogedSource(r) ==
    [ra |-> r.wm_ra, decl |-> r.wm_decl,
     uncertainty_ew |-> r.wm_uncertainty_ew, uncertainty_ns |-> r.wm_uncertainty_ns]

\* C12 (as claimed, for the reported value): the assoc_r of every record
\* match_nearests_in_catalogs returns equals the assoc_r the same query
\* computes when the running source and the catalog source exchange their
\* positions and uncertainties.
C12_AssocRSymmetric ==
    MatchReturned =>
        \A i \in 1..Len(ret.value) :
           ret.value[i].assoc_r =
              AssocRSq(AsRunningSource(ret.value[i]), AsCatalogedSource(MatchedRunningSource))

(***************************************************************************)
(* Stored uncertainties: claim C13.                                        *)
(***************************************************************************)
\* A detection without systematic errors and with error radius zero, at the
\* position of the first detection of Detections.
ZeroErrorDetection == Detection(20, 0, 0, 0, 0, 5)

\* The result lists of a caller that may also pass such a detection.
ZeroErrorResultLists ==
    SeqsUpTo({ZeroErrorDetection, Detection(20, 0, 360, 360, 360, 5)}, MaxBatch)

NextUncertainty ==
    \/ \E image_id \in ImageIds, results \in ZeroErrorResultLists, extract \in ExtractArgs :
          InsertExtractedSources(image_id, results, extract)
    \/ Execute
    \/ Commit
    \/ Abort
    \/ \E image_id \in ImageIds, deRuiter_r \in DeRuiterCutoffs, assoc_theta \in AssocThetas :
          FilterUserdetectionsExtractedSources(image_id, deRuiter_r, assoc_theta)

SpecUncertainty == Init /\ [][NextUncertainty]_vars

\* C13 (as claimed): every stored detection has uncertainty_ew and
\* uncertainty_ns strictly greater than zero, and for every pair of stored
\* detections the denominators of the De Ruiter radius, the sums of the
\* squared uncertainties per axis, are not zero.
C13_StoredUncertaintiesPositive ==
    /\ \A x \in extractedsource : x.uncertainty_ew_sq > 0 /\ x.uncertainty_ns_sq > 0
    /\ \A x0, x1 \in extractedsource : SumEw(x0, x1) # 0 /\ SumNs(x0, x1) # 0

====
